---- MODULE Spec2Model ----
(***************************************************************************)
(* Model of src/src/statistic.py: descriptive statistics over pandas       *)
(* Series and DataFrames.                                                  *)
(*                                                                         *)
(* Every function of the file is pure, so each specification below draws   *)
(* an input in Init and applies one function to it in one step:            *)
(*   SpecSeries    descriptive_stats_numeric, descriptive_stats_categorical *)
(*   SpecOverview  overview_df                                             *)
(*   SpecAnalyze   analyze_dataset, analyze_dataset_numerical,             *)
(*                 analyze_dataset_categorical                             *)
(*                                                                         *)
(* Numbers.  Column values are small integers.  np.percentile at 25/50/75  *)
(* interpolates in quarters and the fence factor is a multiple of 1/2, so  *)
(* every quantile and fence is a multiple of 1/8: value-like fields of a   *)
(* record (min, max, median, q1, q3, iqr, fences) are held in eighths and  *)
(* tukey_factor in halves.  On this domain the float64 arithmetic of the   *)
(* code is exact.  missing_percentage is held in hundredths.  The moment   *)
(* fields (mean, std, skewness, kurtosis) are not rational and are left    *)
(* out of the records.                                                     *)
(*                                                                         *)
(* NA (the empty tuple) stands for NaN / None / NaT; <<v>> is a present    *)
(* value v.  Values of object, datetime64 and timedelta64 columns are      *)
(* integer labels; bool values are 0 and 1.                                *)
(***************************************************************************)
EXTENDS Integers, Sequences, FiniteSets, TLC

VARIABLES
    df,            \* the DataFrame argument of the table functions
    data,          \* the Series argument of the per-column functions
    tukey_factor,  \* the fence factor of the call, in halves
    pc,            \* "start", or the name of the function that has returned
    ret            \* what the call returned or raised

vars == <<df, data, tukey_factor, pc, ret>>

----------------------------------------------------------------------------
(* Bounds of the model *)

MaxLen == 4      \* longest Series given to a per-column function
OvRows == 2      \* most rows of a table given to overview_df
OvCols == 2      \* most columns of a table given to overview_df
AnRows == 1      \* most rows of a table given to the analyze_* functions
AnCols == 2      \* most columns of a table given to the analyze_* functions

----------------------------------------------------------------------------
(* Values *)

NA == <<>>
Some(v) == <<v>>

Ok(v) == [kind |-> "ok", value |-> v, error |-> "-"]
Raise(e) == [kind |-> "raise", value |-> NA, error |-> e]

Min2(a, b) == IF a <= b THEN a ELSE b

RECURSIVE Insert(_, _)
Insert(x, s) ==
    IF s = <<>> THEN <<x>>
    ELSE IF x <= Head(s) THEN <<x>> \o s
    ELSE <<Head(s)>> \o Insert(x, Tail(s))

RECURSIVE SortAsc(_)
SortAsc(s) == IF s = <<>> THEN <<>> ELSE Insert(Head(s), SortAsc(Tail(s)))

Range(s) == {s[i] : i \in DOMAIN s}

SeqsUpTo(S, n) == UNION {[1..m -> S] : m \in 0..n}

----------------------------------------------------------------------------
(* descriptive_stats_numeric *)

DefaultTukeyFactor == 3   \* tukey_factor=1.5, in halves

\* np.percentile(data, q), method "linear", on the sorted values a; in eighths.
\* The virtual index is q/100 * (n-1); the result interpolates between the
\* neighbours at floor and floor+1 with the fractional part as gamma.
Percentile(a, q) ==
    LET n     == Len(a)
        pos   == q * (n - 1)
        prev  == pos \div 100
        gamma == pos % 100
        next  == Min2(prev + 1, n - 1)
    IN  8 * a[prev + 1] + (8 * gamma * (a[next + 1] - a[prev + 1])) \div 100

\* lower_fence = q1 - tukey_factor * iqr (line 40)
LowerFenceSwapped(q1, iqr, k) == q1 + (k * iqr) \div 2
LowerFence(q1, iqr, k) == q1 - (k * iqr) \div 2

\* upper_fence = q3 + tukey_factor * iqr (line 41)
UpperFence(q3, iqr, k) == q3 + (k * iqr) \div 2

\* data[(data < lower_fence) | (data > upper_fence)] (line 42)
OutliersInclusive(vals, lower_fence, upper_fence) ==
    {i \in DOMAIN vals : 8 * vals[i] <= lower_fence \/ 8 * vals[i] >= upper_fence}
Outliers(vals, lower_fence, upper_fence) ==
    {i \in DOMAIN vals : 8 * vals[i] < lower_fence \/ 8 * vals[i] > upper_fence}

\* The dtypes on which stats.describe cannot take moments.
NoMomentsButObject == {"datetime64", "timedelta64"}
NoMoments == {"object", "datetime64", "timedelta64"}

\* bool_lerp: whether the installed numpy interpolates boolean arrays in
\* np.percentile (older releases do; newer ones raise TypeError on the
\* boolean subtraction).
descriptive_stats_numeric(d, k, bool_lerp) ==
    IF Len(d.vals) = 0 THEN Raise("ValueError")
    ELSE IF d.dtype \in NoMoments THEN Raise("TypeError")
    ELSE IF d.dtype = "bool" /\ ~bool_lerp THEN Raise("TypeError")
    ELSE
      LET a   == SortAsc(d.vals)
          q1  == Percentile(a, 25)
          med == Percentile(a, 50)
          q3  == Percentile(a, 75)
          iqr == q3 - q1
          lower_fence == LowerFence(q1, iqr, k)
          upper_fence == UpperFence(q3, iqr, k)
          outliers == Outliers(d.vals, lower_fence, upper_fence)
      IN  IF d.type = "DataFrame" THEN Raise("AttributeError")
          ELSE Ok([column |-> d.name,
                   n |-> Len(d.vals),
                   min |-> 8 * a[1],
                   max |-> 8 * a[Len(a)],
                   median |-> med,
                   q1 |-> q1,
                   q3 |-> q3,
                   iqr |-> iqr,
                   lower_fence |-> lower_fence,
                   upper_fence |-> upper_fence,
                   n_outliers |-> Cardinality(outliers)])

----------------------------------------------------------------------------
(* descriptive_stats_categorical *)

\* The distinct values of s in order of first appearance.
RECURSIVE Distinct(_)
Distinct(s) ==
    IF s = <<>> THEN <<>>
    ELSE LET r == Distinct(SubSeq(s, 1, Len(s) - 1))
             x == s[Len(s)]
         IN  IF x \in Range(r) THEN r ELSE Append(r, x)

Count(s, x) == Cardinality({i \in DOMAIN s : s[i] = x})

\* Insertion of the entry e into a list sorted by descending count, after the
\* entries of equal count (the sort of value_counts is stable).
RECURSIVE InsertByCount(_, _)
InsertByCount(e, s) ==
    IF s = <<>> THEN <<e>>
    ELSE IF e.count > Head(s).count THEN <<e>> \o s
    ELSE <<Head(s)>> \o InsertByCount(e, Tail(s))

RECURSIVE SortByCount(_)
SortByCount(s) ==
    IF s = <<>> THEN <<>>
    ELSE InsertByCount(s[Len(s)], SortByCount(SubSeq(s, 1, Len(s) - 1)))

\* data.value_counts(): one entry per distinct value, most frequent first.
value_counts_unsorted(vals) ==
    LET u == Distinct(vals)
    IN  [i \in DOMAIN u |-> [value |-> u[i], count |-> Count(vals, u[i])]]
value_counts(vals) ==
    LET u == Distinct(vals)
    IN  SortByCount([i \in DOMAIN u |-> [value |-> u[i], count |-> Count(vals, u[i])]])

\* value_counts.max() and value_counts.idxmax(): the first entry of greatest count.
MaxCount(vc) == CHOOSE c \in {vc[i].count : i \in DOMAIN vc} :
                    \A i \in DOMAIN vc : vc[i].count <= c
IdxMax(vc) ==
    LET first == CHOOSE i \in DOMAIN vc :
                    /\ vc[i].count = MaxCount(vc)
                    /\ \A j \in DOMAIN vc : vc[j].count = MaxCount(vc) => i <= j
    IN  vc[first].value

descriptive_stats_categorical(d) ==
    LET vc == value_counts(d.vals)
    IN  IF d.type = "DataFrame" THEN Raise("AttributeError")
        ELSE IF Len(vc) = 0 THEN Raise("ValueError")
        ELSE Ok([column |-> d.name,
                 n |-> Len(d.vals),
                 n_unique |-> Len(vc),
                 mode |-> Some(IdxMax(vc)),
                 mode_count |-> Some(MaxCount(vc)),
                 second_most_common |->
                     IF Len(vc) > 1 THEN Some(vc[2].value) ELSE NA,
                 second_most_common_count |->
                     IF Len(vc) > 1 THEN Some(vc[2].count) ELSE NA])

----------------------------------------------------------------------------
(* Inputs of the per-column functions: Series without missing entries *)

NumValues == {-2, 0, 1, 3}
StrValues == {1, 2, 3}
TukeyFactors == {-2, 0, 1, 3, 4}   \* -1, 0, 0.5, 1.5, 2

Series(dtype, vals) ==
    [type |-> "Series", name |-> "s", dtype |-> dtype, vals |-> vals]

ExampleColumn == <<1, 2, 3, 4, 5, 100>>
ExampleLabels == <<1, 1, 2, 3>>

SeriesInputs ==
    {Series("float64", v) : v \in SeqsUpTo(NumValues, MaxLen) \cup {ExampleColumn}}
    \cup {Series("object", v) : v \in SeqsUpTo(StrValues, MaxLen) \cup {ExampleLabels}}
    \cup {Series("bool", v) : v \in SeqsUpTo({0, 1}, MaxLen)}

NoTable == <<>>
NoSeries == Series("float64", <<>>)

InitSeries ==
    /\ data \in SeriesInputs
    /\ df = NoTable
    /\ tukey_factor = DefaultTukeyFactor
    /\ pc = "start"
    /\ ret = NA

CallNumeric ==
    /\ pc = "start"
    /\ \E k \in TukeyFactors, bool_lerp \in BOOLEAN :
          /\ tukey_factor' = k
          /\ ret' = descriptive_stats_numeric(data, k, bool_lerp)
    /\ pc' = "descriptive_stats_numeric"
    /\ UNCHANGED <<df, data>>

CallCategorical ==
    /\ pc = "start"
    /\ ret' = descriptive_stats_categorical(data)
    /\ pc' = "descriptive_stats_categorical"
    /\ UNCHANGED <<df, data, tukey_factor>>

NextSeries == CallNumeric \/ CallCategorical

SpecSeries == InitSeries /\ [][NextSeries]_vars

----------------------------------------------------------------------------
(* DataFrames: a sequence of columns [name, dtype, cells] of equal length *)

Dtypes == {"float64", "bool", "object", "datetime64", "timedelta64"}

\* What a cell of a column of the dtype can hold; a bool column has no
\* missing entries.
CellsOf(dtype) == IF dtype = "bool" THEN {Some(0), Some(1)} ELSE {NA, Some(1)}

ColumnNames == {"x", "y"}

ColumnsOf(dtypes, rows) ==
    UNION {{[name |-> c, dtype |-> t, cells |-> cs] :
               c \in ColumnNames, cs \in [1..rows -> CellsOf(t)]} : t \in dtypes}

\* Column names may repeat, as they may in a DataFrame.
Tables(dtypes, maxRows, maxCols) ==
    UNION {[1..c -> ColumnsOf(dtypes, r)] : r \in 0..maxRows, c \in 0..maxCols}

NRows(t) == IF Len(t) = 0 THEN 0 ELSE Len(t[1].cells)

\* df[column]: the Series of that name, or, when several columns carry the
\* name, the DataFrame of them.  A row of such a frame is held as NA when one
\* of its cells is missing (the rows dropna() removes) and as its index
\* otherwise; the frame's dtype is the columns' common dtype, else object.
GetItem(t, i) ==
    LET same == {j \in DOMAIN t : t[j].name = t[i].name}
    IN  IF Cardinality(same) = 1
        THEN [type |-> "Series", name |-> t[i].name, dtype |-> t[i].dtype,
              cells |-> t[i].cells]
        ELSE [type |-> "DataFrame", name |-> t[i].name,
              dtype |-> IF \A j \in same : t[j].dtype = t[i].dtype
                        THEN t[i].dtype ELSE "object",
              cells |-> [r \in 1..NRows(t) |->
                            IF \E j \in same : t[j].cells[r] = NA THEN NA ELSE Some(r)]]

IsPresent(c) == c # NA

nodrop(x) ==
    [type |-> x.type, name |-> x.name, dtype |-> x.dtype,
     vals |-> [i \in DOMAIN x.cells |-> IF x.cells[i] = NA THEN 0 ELSE x.cells[i][1]]]
\* x.dropna()
dropna(x) ==
    LET kept == SelectSeq(x.cells, IsPresent)
    IN  [type |-> x.type, name |-> x.name, dtype |-> x.dtype,
         vals |-> [i \in DOMAIN kept |-> kept[i][1]]]

\* x.nunique(): the distinct non-missing values
nunique(x) == Cardinality(Range(x.cells) \ {NA})

\* x.isnull().sum(), over the full column
isnull_sum(x) == Cardinality({i \in DOMAIN x.cells : x.cells[i] = NA})

\* round(num / den, 0), to the nearest integer, halves to the even one
RoundHalfEven(num, den) ==
    LET q == num \div den
        r == num % den
    IN  IF 2 * r < den THEN q
        ELSE IF 2 * r > den THEN q + 1
        ELSE IF q % 2 = 0 THEN q ELSE q + 1

\* round(missing_count / value_count * 100, 2), in hundredths; the quotient of
\* numpy integers by zero is nan, and round(nan, 2) is nan (NA here).
missing_percentage(missing_count, value_count) ==
    IF value_count = 0 THEN NA
    ELSE Some(RoundHalfEven(missing_count * 10000, value_count))

RowOf(t, r) == [i \in DOMAIN t |-> t[i].cells[r]]

\* df.duplicated().sum(): the rows equal to a row already seen (keep="first",
\* missing entries equal to one another).
RECURSIVE DuplicatedFrom(_, _, _)
DuplicatedFrom(t, r, seen) ==
    IF r > NRows(t) THEN 0
    ELSE IF RowOf(t, r) \in seen THEN 1 + DuplicatedFrom(t, r + 1, seen)
    ELSE DuplicatedFrom(t, r + 1, seen \cup {RowOf(t, r)})

duplicated_keep_none(t) ==
    Cardinality({r \in 1..NRows(t) :
                    \E q \in 1..NRows(t) : q # r /\ RowOf(t, q) = RowOf(t, r)})
duplicated(t) == DuplicatedFrom(t, 1, {})

\* pd.DataFrame(results) of a loop that appends one record per column and
\* lets the first exception through: outs[i] is what the i-th pass produced.
Collect(outs) ==
    IF \E i \in DOMAIN outs : outs[i].kind = "raise"
    THEN LET first == CHOOSE i \in DOMAIN outs :
                         /\ outs[i].kind = "raise"
                         /\ \A j \in DOMAIN outs : outs[j].kind = "raise" => i <= j
         IN  Raise(outs[first].error)
    ELSE Ok([i \in DOMAIN outs |-> outs[i].value])

----------------------------------------------------------------------------
(* overview_df *)

OverviewColumn(t, i) ==
    LET x == GetItem(t, i)
    IN  IF x.type = "DataFrame" THEN Raise("AttributeError")  \* df[column].dtype
        ELSE Ok([column |-> x.name,
                 types |-> x.dtype,
                 unique_data |-> nunique(x),
                 missing_value |-> isnull_sum(x),
                 missing_percentage |-> missing_percentage(isnull_sum(x), Len(x.cells)),
                 duplicated |-> duplicated(t)])

overview_df(t) == Collect([i \in DOMAIN t |-> OverviewColumn(t, i)])

InitOverview ==
    /\ df \in Tables({"float64", "object"}, OvRows, OvCols)
    /\ data = NoSeries
    /\ tukey_factor = DefaultTukeyFactor
    /\ pc = "start"
    /\ ret = NA

CallOverview ==
    /\ pc = "start"
    /\ ret' = overview_df(df)
    /\ pc' = "overview_df"
    /\ UNCHANGED <<df, data, tukey_factor>>

NextOverview == CallOverview

SpecOverview == InitOverview /\ [][NextOverview]_vars

----------------------------------------------------------------------------
(* analyze_dataset_numerical, analyze_dataset_categorical, analyze_dataset *)

\* The dtypes df.select_dtypes(include=np.number) keeps: those whose scalar
\* type is a subclass of np.number, which np.timedelta64 is and np.bool_ is
\* not.
NumberDtypes == {"float64", "timedelta64"}

\* df.select_dtypes(include=np.number).columns, as positions of df in order
select_dtypes_include_number(t) ==
    SelectSeq([i \in DOMAIN t |-> i], LAMBDA i : t[i].dtype \in NumberDtypes)

\* df.select_dtypes(exclude=np.number).columns, as positions of df in order
select_dtypes_exclude_number(t) ==
    SelectSeq([i \in DOMAIN t |-> i], LAMBDA i : t[i].dtype \notin NumberDtypes)

\* pd.api.types.is_numeric_dtype(x): true of number and boolean dtypes, false
\* of datetime-like and object dtypes and of anything without a dtype, as a
\* DataFrame is.
is_numeric_dtype(x) == x.type = "Series" /\ x.dtype \in {"float64", "bool"}

analyze_dataset_numerical(t, bool_lerp) ==
    LET cols == select_dtypes_include_number(t)
    IN  Collect([k \in DOMAIN cols |->
            descriptive_stats_numeric(dropna(GetItem(t, cols[k])),
                                      DefaultTukeyFactor, bool_lerp)])

analyze_dataset_categorical(t) ==
    LET cols == select_dtypes_exclude_number(t)
    IN  Collect([k \in DOMAIN cols |->
            descriptive_stats_categorical(dropna(GetItem(t, cols[k])))])

\* stats.get(key): the record's field, or None
Get(stats, key) == IF key \in DOMAIN stats THEN Some(stats[key]) ELSE NA
\* the same for the fields that are themselves nullable in the record
GetNullable(stats, key) == IF key \in DOMAIN stats THEN stats[key] ELSE NA

AnalyzeColumn(t, i, bool_lerp) ==
    LET x == GetItem(t, i)
        col_data == dropna(x)
        out == IF is_numeric_dtype(x)
               THEN descriptive_stats_numeric(col_data, DefaultTukeyFactor, bool_lerp)
               ELSE descriptive_stats_categorical(col_data)
        stats == out.value
        unique_data == nunique(x)
        missing_count == isnull_sum(x)
        value_count == Len(x.cells)
    IN  IF out.kind = "raise" THEN out
        ELSE Ok([column |-> t[i].name,
                 n |-> stats.n,
                 min |-> Get(stats, "min"),
                 max |-> Get(stats, "max"),
                 median |-> Get(stats, "median"),
                 q1 |-> Get(stats, "q1"),
                 q3 |-> Get(stats, "q3"),
                 iqr |-> Get(stats, "iqr"),
                 lower_fence |-> Get(stats, "lower_fence"),
                 upper_fence |-> Get(stats, "upper_fence"),
                 n_outliers |-> Get(stats, "n_outliers"),
                 n_unique |-> IF "n_unique" \in DOMAIN stats
                              THEN stats.n_unique ELSE unique_data,
                 mode |-> GetNullable(stats, "mode"),
                 mode_count |-> GetNullable(stats, "mode_count"),
                 second_most_common |-> GetNullable(stats, "second_most_common"),
                 second_most_common_count |->
                     GetNullable(stats, "second_most_common_count"),
                 unique_data |-> unique_data,
                 missing_value |-> missing_count,
                 missing_percentage |-> missing_percentage(missing_count, value_count),
                 duplicated |-> duplicated(t)])

analyze_dataset(t, bool_lerp) ==
    Collect([i \in DOMAIN t |-> AnalyzeColumn(t, i, bool_lerp)])

InitAnalyze ==
    /\ df \in Tables(Dtypes, AnRows, AnCols)
    /\ data = NoSeries
    /\ tukey_factor = DefaultTukeyFactor
    /\ pc = "start"
    /\ ret = NA

CallAnalyze ==
    /\ pc = "start"
    /\ \E bool_lerp \in BOOLEAN : ret' = analyze_dataset(df, bool_lerp)
    /\ pc' = "analyze_dataset"
    /\ UNCHANGED <<df, data, tukey_factor>>

CallAnalyzeNumerical ==
    /\ pc = "start"
    /\ \E bool_lerp \in BOOLEAN : ret' = analyze_dataset_numerical(df, bool_lerp)
    /\ pc' = "analyze_dataset_numerical"
    /\ UNCHANGED <<df, data, tukey_factor>>

CallAnalyzeCategorical ==
    /\ pc = "start"
    /\ ret' = analyze_dataset_categorical(df)
    /\ pc' = "analyze_dataset_categorical"
    /\ UNCHANGED <<df, data, tukey_factor>>

NextAnalyze == CallAnalyze \/ CallAnalyzeNumerical \/ CallAnalyzeCategorical

SpecAnalyze == InitAnalyze /\ [][NextAnalyze]_vars

----------------------------------------------------------------------------
(* Claims about the per-column functions, checked under SpecSeries *)

NumericReturned == pc = "descriptive_stats_numeric" /\ ret.kind = "ok"
CategoricalReturned == pc = "descriptive_stats_categorical" /\ ret.kind = "ok"

\* C1: for every non-empty numeric column and fence factor k a record is
\* returned with lower_fence = q1 - k*iqr, upper_fence = q3 + k*iqr and
\* n_outliers = the number of values strictly below lower_fence or strictly
\* above upper_fence; [1,2,3,4,5,100] with k = 1.5 gives q1 = 2.25, q3 = 4.75,
\* iqr = 2.5, fences [-1.5, 8.5] and one outlier.  (k in halves, the rest in
\* eighths.)
C1_FencesAndOutliers ==
    pc = "descriptive_stats_numeric" /\ data.dtype = "float64" /\ Len(data.vals) > 0 =>
        /\ ret.kind = "ok"
        /\ LET r == ret.value
               below == {i \in DOMAIN data.vals : 8 * data.vals[i] < r.lower_fence}
               above == {i \in DOMAIN data.vals : 8 * data.vals[i] > r.upper_fence}
           IN  /\ 2 * r.lower_fence = 2 * r.q1 - tukey_factor * r.iqr
               /\ 2 * r.upper_fence = 2 * r.q3 + tukey_factor * r.iqr
               /\ r.n_outliers = Cardinality(below \cup above)
               /\ data.vals = ExampleColumn /\ tukey_factor = 3 =>
                     /\ r.q1 = 18 /\ r.q3 = 38 /\ r.iqr = 20
                     /\ r.lower_fence = -12 /\ r.upper_fence = 68
                     /\ r.n_outliers = 1

\* C1 witness: the example column with k = 1.5 has exactly one outlier.
C1_Witness ==
    /\ NumericReturned
    /\ data.vals = ExampleColumn
    /\ tukey_factor = 3
    /\ ret.value.n_outliers = 1

\* C2: for a non-empty numeric column and a non-negative fence factor,
\* lower_fence <= q1 <= median <= q3 <= upper_fence and iqr = q3 - q1 >= 0.
C2_QuantileOrder ==
    NumericReturned /\ tukey_factor >= 0 =>
        LET r == ret.value
        IN  /\ r.lower_fence <= r.q1
            /\ r.q1 <= r.median
            /\ r.median <= r.q3
            /\ r.q3 <= r.upper_fence
            /\ r.iqr = r.q3 - r.q1
            /\ r.iqr >= 0

\* C2 witness: a column on which all four inequalities are strict.
C2_Witness ==
    /\ NumericReturned
    /\ tukey_factor > 0
    /\ ret.value.lower_fence < ret.value.q1
    /\ ret.value.q1 < ret.value.median
    /\ ret.value.median < ret.value.q3
    /\ ret.value.q3 < ret.value.upper_fence

\* C6: a negative fence factor makes descriptive_stats_numeric raise; no
\* record is returned.
C6_NegativeFactorRaises ==
    pc = "descriptive_stats_numeric" /\ tukey_factor < 0 => ret.kind = "raise"

\* C7: for every non-empty categorical column mode_count is the greatest
\* frequency, mode_count >= second_most_common_count >= the frequency of every
\* other value, mode and second_most_common differ, and the two second fields
\* are null exactly when there are fewer than 2 distinct values.
C7_ModeAndSecond ==
    pc = "descriptive_stats_categorical" /\ Len(data.vals) > 0 =>
        /\ ret.kind = "ok"
        /\ LET r == ret.value
               vals == data.vals
               freq(x) == Cardinality({i \in DOMAIN vals : vals[i] = x})
               distinct == {vals[i] : i \in DOMAIN vals}
           IN  /\ r.mode # NA /\ r.mode[1] \in distinct
               /\ r.mode_count = Some(freq(r.mode[1]))
               /\ \A x \in distinct : freq(x) <= r.mode_count[1]
               /\ (r.second_most_common = NA) <=> (Cardinality(distinct) < 2)
               /\ (r.second_most_common_count = NA) <=> (Cardinality(distinct) < 2)
               /\ r.second_most_common # NA =>
                     /\ r.second_most_common[1] \in distinct
                     /\ r.second_most_common # r.mode
                     /\ r.second_most_common_count = Some(freq(r.second_most_common[1]))
                     /\ r.mode_count[1] >= r.second_most_common_count[1]
                     /\ \A x \in distinct \ {r.mode[1], r.second_most_common[1]} :
                            freq(x) <= r.second_most_common_count[1]

\* C7 witness: ["a","a","b","c"] gives mode "a" with count 2 and a second
\* value of count 1.
C7_Witness ==
    /\ CategoricalReturned
    /\ data.vals = ExampleLabels
    /\ ret.value.mode = Some(1)
    /\ ret.value.mode_count = Some(2)
    /\ ret.value.second_most_common = Some(2)
    /\ ret.value.second_most_common_count = Some(1)

----------------------------------------------------------------------------
(* Claims about overview_df, checked under SpecOverview *)

OverviewReturned == pc = "overview_df" /\ ret.kind = "ok"

\* C4: for every table and column, missing_percentage is in [0, 100] and
\* equals round(missing_count / total_row_count * 100, 2), the missing entries
\* being counted over the full column.  (In hundredths: within half a
\* hundredth of the exact quotient.)
C4_MissingPercentage ==
    OverviewReturned =>
        \A i \in DOMAIN ret.value :
            LET mp == ret.value[i].missing_percentage
                missing == Cardinality({r \in 1..NRows(df) : df[i].cells[r] = NA})
                total == NRows(df)
            IN  /\ mp # NA
                /\ mp[1] >= 0 /\ mp[1] <= 10000
                /\ 2 * (mp[1] * total - missing * 10000) <= total
                /\ 2 * (missing * 10000 - mp[1] * total) <= total

\* C8: duplicated is the number of rows of the table that repeat an earlier
\* row, and it is the same in every row of one result.
C8_DuplicatedIsTableLevel ==
    OverviewReturned =>
        LET repeats == {r \in 1..NRows(df) :
                           \E q \in 1..(r - 1) :
                               \A i \in DOMAIN df : df[i].cells[q] = df[i].cells[r]}
        IN  /\ \A i \in DOMAIN ret.value : ret.value[i].duplicated = Cardinality(repeats)
            /\ \A i, j \in DOMAIN ret.value :
                   ret.value[i].duplicated = ret.value[j].duplicated

\* C8 witness: a result of two rows for a table that has a repeated row and a
\* missing entry.
C8_Witness ==
    /\ OverviewReturned
    /\ Len(ret.value) = 2
    /\ ret.value[1].duplicated = 1
    /\ ret.value[2].duplicated = 1
    /\ ret.value[1].missing_value > 0

----------------------------------------------------------------------------
(* Claims about the table analyses, checked under SpecAnalyze *)

AllMissing(i) == \A r \in 1..NRows(df) : df[i].cells[r] = NA
UniqueName(i) == \A j \in DOMAIN df : df[j].name = df[i].name => j = i

\* C3: for a table whose columns each have a non-missing value,
\* analyze_dataset returns one row per column, in column order.
C3_OneRowPerColumn ==
    pc = "analyze_dataset" /\ (\A i \in DOMAIN df : ~AllMissing(i)) =>
        /\ ret.kind = "ok"
        /\ Len(ret.value) = Len(df)
        /\ \A i \in DOMAIN df : ret.value[i].column = df[i].name

\* C5: when a column has no non-missing value the statistics step raises an
\* empty-input error and analyze_dataset lets it through: no table is
\* returned, hence no row of nulls and no partial result; the same for
\* analyze_dataset_numerical and analyze_dataset_categorical on a column they
\* select.  (The error is the empty-input one when the first column is the
\* all-missing one.)
C5_AllMissingRaises ==
    /\ pc = "analyze_dataset" /\ (\E i \in DOMAIN df : AllMissing(i)) =>
          /\ ret.kind = "raise" /\ ret.value = NA
          /\ AllMissing(1) /\ UniqueName(1) => ret.error = "ValueError"
    /\ pc = "analyze_dataset_numerical"
          /\ (\E i \in DOMAIN df : AllMissing(i) /\ df[i].dtype \in {"float64", "timedelta64"})
          => ret.kind = "raise" /\ ret.value = NA
    /\ pc = "analyze_dataset_categorical"
          /\ (\E i \in DOMAIN df : AllMissing(i) /\ df[i].dtype \notin {"float64", "timedelta64"})
          => ret.kind = "raise" /\ ret.value = NA

\* C5 witness: the second of two columns is all missing over one row, the
\* first is a complete numeric column, and analyze_dataset raised the
\* empty-input error.
C5_Witness ==
    /\ pc = "analyze_dataset"
    /\ Len(df) = 2 /\ NRows(df) = 1
    /\ df[1].name # df[2].name
    /\ df[1].dtype = "float64" /\ ~AllMissing(1)
    /\ AllMissing(2)
    /\ ret = Raise("ValueError")

\* C10: analyze_dataset computes numeric statistics for a column exactly when
\* analyze_dataset_numerical selects it, and categorical statistics exactly
\* when analyze_dataset_categorical selects it.
C10_SameClassification ==
    pc = "analyze_dataset" /\ ret.kind = "ok" =>
        \A i \in DOMAIN df :
            /\ ret.value[i].n_outliers # NA
                  <=> i \in Range(select_dtypes_include_number(df))
            /\ ret.value[i].mode # NA
                  <=> i \in Range(select_dtypes_exclude_number(df))

====
